---- MODULE Spec2Model ----
(***************************************************************************)
(* A model of the Timeline class of src/src/timeline.ts: the entry list    *)
(* and its position resolution (add, addLabel, calculateDuration), the     *)
(* frame loop (play, pause, reverse, togglePlayPause, runAnimations and    *)
(* the methods it calls), seek and progress, and the property values the   *)
(* entries of to() write to their target.                                  *)
(*                                                                         *)
(* Times held by the Timeline are integers of milliseconds.  Arguments the *)
(* API takes in seconds range over multiples of half a second and are      *)
(* written as a count h of half seconds (h = 3 is 1.5 s); SecondsToMs is   *)
(* the code's "* 1000" on such an argument.                                *)
(*                                                                         *)
(* A value of type "number | undefined" or "number | null" is a sequence:  *)
(* <<>> for undefined/null, <<n>> for the number n.                        *)
(***************************************************************************)
EXTENDS Integers, Sequences, FiniteSets, TLC

VARIABLES
    \* the fields of the Timeline (timeline.ts:51-72)
    animations,          \* sequence of [position, duration, startValues, endValues]
    labels,              \* function: label name -> ms
    currentTime,
    duration,
    isPlayingInternal,
    playDirection,       \* "forward" | "backward"
    startTime,           \* <<>> (null) or <<ms>>
    isPausedInternal,
    repeat,
    repeatDelay,         \* in half seconds (a constructor argument in seconds)
    repeatCount,
    shouldYoyo,
    onCompleteCallback,  \* what the onComplete option does: "observer", or "play" for () => timeline.play()
    animationFrameId,    \* <<>> (null) or <<handle>>
    \* the host
    now,                 \* performance.now() and the timestamp of a frame
    pendingFrames,       \* handles of the frame callbacks requested and not yet run or cancelled
    \* what a test harness records
    lastCall,            \* the last public call, its arguments and the duration before it
    sequentialOnly,      \* every to() so far omitted its position
    fired,               \* how often each Timeline callback was invoked
    loopAnchor,          \* <<>>, or <<the startTime the first tick after play() ran with>>
    step,                \* the last playback call or tick since the last to() or addLabel()
    changes,             \* the onChange calls of the last seek(), progress() or tick, in order
    delivered,           \* per entry: <<>>, or <<the argument of its last onChange call>>
    \* the object the to() entries animate
    target               \* its properties left and top

vars == <<animations, labels, currentTime, duration, isPlayingInternal,
          playDirection, startTime, isPausedInternal, repeat, repeatDelay,
          repeatCount, shouldYoyo, onCompleteCallback, animationFrameId, now, pendingFrames,
          lastCall, sequentialOnly, fired, loopAnchor, step, changes, delivered,
          target>>

timelineVars == <<currentTime, isPlayingInternal, playDirection, startTime,
                  isPausedInternal, repeatCount, animationFrameId>>
configVars == <<repeat, repeatDelay, shouldYoyo, onCompleteCallback>>
hostVars == <<now, pendingFrames>>
observedVars == <<step, changes>>

----------------------------------------------------------------------------
(* Bounds and input sets *)

MaxEntries == 3
\* entries of a timeline that is played, and the last clock value of a run
MaxPlayedEntries == 2
MaxClock == 5000
\* playback calls the host makes on one timeline, and the last clock value
\* at which it makes them or a frame arrives
MaxHostCalls == 3
\* entries of a timeline that is sought, and calls made on it after a to()
MaxSeekEntries == 2
MaxSeekCalls == 2
MaxHostClock == 2500

\* durations passed to to(), in half seconds
Durations == {0, 1, 2}
\* the N of '<N', '>N', '+=N', '-=N' and of a plain number position, in half seconds
TokenArgs == {-2, 0, 1}
\* label names passed to addLabel(); "ghost" is used as a position but never defined
LabelNames == {"a"}
PositionNames == {"a", "ghost"}
\* positions passed to addLabel(), in half seconds
LabelArgs == {0, 1}

\* durations of the entries of a timeline that is played, in half seconds
PlayedDurations == {1, 2}
\* the constructor's repeat, repeatDelay (in half seconds) and yoyo options
Repeats == {0, 1, 2}
RepeatDelays == {0, 1}
\* the clock when the Timeline is constructed
StartClocks == {0, 1000}
\* the time from a frame request, or from the previous frame, to the next frame
FrameGaps == {300, 500}

\* the constructor options of a timeline the host drives: repeat,
\* repeatDelay (in half seconds), yoyo and what onComplete does
HostOptions ==
    {<<0, 0, FALSE, "observer">>, <<0, 0, FALSE, "play">>, <<0, 1, FALSE, "observer">>,
     <<1, 0, FALSE, "observer">>, <<1, 0, TRUE, "observer">>}
\* seek() arguments in half seconds, progress() arguments in halves
SeekArgs == {0, 1, 2, 3}
ProgressArgs == {-1, 0, 1, 2, 3}
\* the clock when a timeline the host drives is constructed
HostStartClocks == {1000}
\* the arguments of seek() and progress() on a timeline the host drives
HostSeekArgs == {3}
HostProgressArgs == {1}

Max(a, b) == IF a >= b THEN a ELSE b

Undefined == <<>>
Num(n) == <<n>>
IsNumber(v) == Len(v) = 1
ValueOf(v) == v[1]

\* A JavaScript number held by a property of the target: an integer or NaN
Value(n) == [nan |-> FALSE, v |-> n]
NaN == [nan |-> TRUE, v |-> 0]
Plus(a, b) == IF a.nan \/ b.nan THEN NaN ELSE Value(a.v + b.v)
Minus(a, b) == IF a.nan \/ b.nan THEN NaN ELSE Value(a.v - b.v)

\* seconds * 1000 for an argument of h half seconds
SecondsToMs(h) == (h * 1000) \div 2

----------------------------------------------------------------------------
(* Position tokens: what the caller passes as `position` *)

Token(kind, n, name) == [kind |-> kind, n |-> n, name |-> name]
Omitted == Token("omitted", 0, "")
Tokens ==
    {Omitted, Token(">", 0, ""), Token("<", 0, "")}
    \cup {Token(k, n, "") : k \in {"<N", ">N", "+=", "-=", "number"}, n \in TokenArgs}
    \cup {Token("label", 0, l) : l \in PositionNames}

\* A slip in lines 105-109: the start of the previous entry is dropped.
PreviousAnimationStartTimeDropped(anims) == 0

\* add(), lines 104-112
PreviousAnimationStartTime(anims) ==
    IF Len(anims) > 0
    THEN IF IsNumber(anims[Len(anims)].position)
         THEN ValueOf(anims[Len(anims)].position)
         ELSE 0
    ELSE 0

PreviousAnimationDuration(anims) ==
    IF Len(anims) > 0 THEN anims[Len(anims)].duration ELSE 0

\* this.labels[name]: undefined for a name never added
LabelOf(lbls, name) == IF name \in DOMAIN lbls THEN lbls[name] ELSE Undefined

\* this.labels[position] used as a condition (line 148): defined and not 0
LabelTruthy(lbls, name) ==
    IsNumber(LabelOf(lbls, name)) /\ ValueOf(LabelOf(lbls, name)) # 0

\* A slip in lines 130-134: the '>' prefix resolved like the '<' prefix, from
\* the start of the previous entry.
ResolvePositionFromStart(anims, lbls, dur, tok) ==
    LET prevStart == PreviousAnimationStartTime(anims)
        prevDuration == PreviousAnimationDuration(anims)
    IN  CASE tok.kind \in {"omitted", ">"} -> Num(prevStart + prevDuration)
          [] tok.kind = "<" -> Num(prevStart)
          [] tok.kind \in {"<N", ">N"} -> Num(prevStart + SecondsToMs(tok.n))
          [] tok.kind = "+=" -> Num(dur + SecondsToMs(tok.n))
          [] tok.kind = "-=" -> Num(Max(0, dur + SecondsToMs(tok.n)))
          [] tok.kind = "label" ->
                IF LabelTruthy(lbls, tok.name) THEN LabelOf(lbls, tok.name) ELSE Undefined
          [] tok.kind = "number" -> Num(SecondsToMs(tok.n))

\* add(), lines 114-154: the resolvedPosition
ResolvePosition(anims, lbls, dur, tok) ==
    LET prevStart == PreviousAnimationStartTime(anims)
        prevDuration == PreviousAnimationDuration(anims)
    IN  CASE tok.kind \in {"omitted", ">"} -> Num(prevStart + prevDuration)
          [] tok.kind = "<" -> Num(prevStart)
          [] tok.kind = "<N" -> Num(prevStart + SecondsToMs(tok.n))
          [] tok.kind = ">N" -> Num(prevStart + prevDuration + SecondsToMs(tok.n))
          [] tok.kind = "+=" -> Num(dur + SecondsToMs(tok.n))
          [] tok.kind = "-=" -> Num(Max(0, dur + SecondsToMs(tok.n)))
          [] tok.kind = "label" ->
                IF LabelTruthy(lbls, tok.name) THEN LabelOf(lbls, tok.name) ELSE Undefined
          [] tok.kind = "number" -> Num(SecondsToMs(tok.n))

\* A slip in lines 196-199: the end of the entry is stored without Math.max.
RECURSIVE CalculateDurationNoMax(_, _, _)
CalculateDurationNoMax(anims, i, calculatedDuration) ==
    IF i > Len(anims) THEN calculatedDuration
    ELSE LET animDuration == anims[i].duration
             insertPosition == IF IsNumber(anims[i].position)
                               THEN ValueOf(anims[i].position)
                               ELSE calculatedDuration
         IN  CalculateDurationNoMax(anims, i + 1, insertPosition + animDuration)

\* calculateDuration(), lines 183-202: the loop from entry i on, with the
\* running calculatedDuration
RECURSIVE CalculateDurationFrom(_, _, _)
CalculateDurationFrom(anims, i, calculatedDuration) ==
    IF i > Len(anims) THEN calculatedDuration
    ELSE LET animDuration == anims[i].duration
             insertPosition == IF IsNumber(anims[i].position)
                               THEN ValueOf(anims[i].position)
                               ELSE calculatedDuration
         IN  CalculateDurationFrom(anims, i + 1,
                 Max(calculatedDuration, insertPosition + animDuration))

CalculateDuration(anims) == CalculateDurationFrom(anims, 1, 0)

\* What the caller passes as the end value of a property: a number, a
\* relative string '+=N' or '-=N', a string parseFloat reads as N ("numeric"),
\* or a string it reads as NaN ("unparsable")
EndToken(kind, n) == [kind |-> kind, n |-> n]

\* A slip in lines 548-552: '-=N' adds N, as '+=N' does.
EndValueAdded(startValue, e) ==
    CASE e.kind = "number" -> Value(e.n)
      [] e.kind \in {"+=", "-="} -> Plus(startValue, Value(e.n))
      [] e.kind = "numeric" -> Value(e.n)
      [] e.kind = "unparsable" -> NaN

\* to(), lines 543-558: the end value of a property whose value is startValue
\* when to() is called
EndValue(startValue, e) ==
    CASE e.kind = "number" -> Value(e.n)
      [] e.kind = "+=" -> Plus(startValue, Value(e.n))
      [] e.kind = "-=" -> Minus(startValue, Value(e.n))
      [] e.kind = "numeric" -> Value(e.n)
      [] e.kind = "unparsable" -> NaN

\* to(), lines 534-560: startValues and endValues, for the properties map
\* props (a function from property names to end tokens) and the object obj
StartValues(obj, props) == [key \in DOMAIN props |-> obj[key]]
EndValues(obj, props) == [key \in DOMAIN props |-> EndValue(obj[key], props[key])]

\* add(), lines 156-160: the entry pushed, with the values its onChange
\* closure holds (lines 562-580)
NewEntry(anims, lbls, dur, tok, d, obj, props) ==
    [position |-> ResolvePosition(anims, lbls, dur, tok), duration |-> SecondsToMs(d),
     startValues |-> StartValues(obj, props), endValues |-> EndValues(obj, props)]

\* resolveAnimationStartTime(), lines 383-388
ResolveAnimationStartTime(animation) ==
    IF IsNumber(animation.position) THEN ValueOf(animation.position) ELSE 0

\* seek(), lines 474-492: the animationStart of an entry.  A stored position
\* is a number or undefined, never a string.
SeekAnimationStart(animation) ==
    IF ~IsNumber(animation.position) THEN 0 * 1000
    ELSE ValueOf(animation.position)

----------------------------------------------------------------------------
(* The state after construction: new Timeline(options) *)

\* the properties map {} and the target new fabric.Rect({left: 10, top: 0})
NoProps == <<>>
NewTarget == [left |-> Value(10), top |-> Value(0)]

Call(op, tok, d, name, at, pre) ==
    [op |-> op, tok |-> tok, dur |-> d, name |-> name, at |-> at, preDuration |-> pre]
NoCall == Call("none", Omitted, 0, "", Undefined, 0)

\* No playback call or tick since the timeline was last built
NoStep ==
    [op |-> "none", from |-> Omitted, n |-> 0, gap |-> 0, calls |-> 0, props |-> NoProps,
     log |-> <<>>, before |-> <<>>,
     prev |-> [op |-> "none", from |-> Omitted, n |-> 0, playing |-> FALSE]]

Constructed(rep, delay, yoyo, onComplete) ==
    /\ animations = <<>>
    /\ labels = [l \in LabelNames |-> Undefined]
    /\ currentTime = 0
    /\ duration = 0
    /\ isPlayingInternal = FALSE
    /\ playDirection = "forward"
    /\ startTime = <<>>
    /\ isPausedInternal = FALSE
    /\ repeat = rep
    /\ repeatDelay = delay
    /\ repeatCount = 0
    /\ shouldYoyo = yoyo
    /\ onCompleteCallback = onComplete
    /\ animationFrameId = <<>>
    /\ pendingFrames = {}
    /\ lastCall = NoCall
    /\ sequentialOnly = TRUE
    /\ fired = [onRepeat |-> 0, onComplete |-> 0, onReverseComplete |-> 0]
    /\ loopAnchor = <<>>
    /\ step = NoStep
    /\ changes = <<>>
    /\ delivered = <<>>
    /\ target = NewTarget

----------------------------------------------------------------------------
(* Building: to() and addLabel() *)

\* to(object, props, d, tok), lines 519-586, with the add() it ends in, lines 97-163
ToProps(props, tok, d) ==
    /\ animations' = Append(animations,
                            NewEntry(animations, labels, duration, tok, d, target, props))
    /\ duration' = CalculateDuration(animations')
    /\ lastCall' = Call("to", tok, d, "", Undefined, duration)
    /\ sequentialOnly' = (sequentialOnly /\ tok.kind = "omitted")
    /\ step' = [NoStep EXCEPT !.props = props]
    /\ changes' = <<>>
    /\ delivered' = Append(delivered, Undefined)
    /\ UNCHANGED <<labels, timelineVars, configVars, hostVars, fired, loopAnchor, target>>

\* to(object, {}, d, tok)
To(tok, d) ==
    /\ Len(animations) < MaxEntries
    /\ ToProps(NoProps, tok, d)

\* the value addLabel() stores, lines 171-176
LabelTime(dur, at) == IF IsNumber(at) THEN SecondsToMs(ValueOf(at)) ELSE dur

\* addLabel(name, at), lines 170-178
AddLabel(name, at) ==
    /\ labels' = [labels EXCEPT ![name] = Num(LabelTime(duration, at))]
    /\ lastCall' = Call("addLabel", Omitted, 0, name, at, duration)
    /\ step' = NoStep
    /\ changes' = <<>>
    /\ UNCHANGED <<animations, duration, timelineVars, configVars, hostVars,
                   sequentialOnly, fired, loopAnchor, delivered, target>>

Init ==
    /\ Constructed(0, 0, FALSE, "observer")
    /\ now = 0

Next ==
    \/ \E tok \in Tokens, d \in Durations : To(tok, d)
    \/ \E name \in LabelNames, at \in {Undefined} \cup {Num(h) : h \in LabelArgs} :
          AddLabel(name, at)

Spec == Init /\ [][Next]_vars

----------------------------------------------------------------------------
(* The frame loop.  A method that changes several fields is an operator    *)
(* from the record of the fields before the call to the record after it.   *)

Fields ==
    [currentTime |-> currentTime, isPlaying |-> isPlayingInternal,
     isPaused |-> isPausedInternal, playDirection |-> playDirection,
     startTime |-> startTime, repeatCount |-> repeatCount,
     animationFrameId |-> animationFrameId, pending |-> pendingFrames,
     fired |-> fired]

\* The fields of record t become the next state.
Becomes(t) ==
    /\ currentTime' = t.currentTime
    /\ isPlayingInternal' = t.isPlaying
    /\ isPausedInternal' = t.isPaused
    /\ playDirection' = t.playDirection
    /\ startTime' = t.startTime
    /\ repeatCount' = t.repeatCount
    /\ animationFrameId' = t.animationFrameId
    /\ pendingFrames' = t.pending
    /\ fired' = t.fired

\* JavaScript's a % b for b > 0: the remainder has the sign of a
JsRem(a, b) == IF a >= 0 THEN a % b ELSE -((-a) % b)

\* fabric.util.requestAnimFrame: a handle no live or stored handle equals
FreshHandle(t) ==
    CHOOSE h \in 1..(Cardinality(t.pending) + 2) :
        /\ h \notin t.pending
        /\ t.animationFrameId # Num(h)
        /\ \A g \in 1..(h - 1) : g \in t.pending \/ t.animationFrameId = Num(g)

\* this.animationFrameId = fabric.util.requestAnimFrame(...), lines 267-269, 302-304, 460-462
RequestAnimFrame(t) ==
    [t EXCEPT !.animationFrameId = Num(FreshHandle(t)),
              !.pending = t.pending \cup {FreshHandle(t)}]

\* A slip in line 223: isPaused is not set.
PauseUnflagged(t) ==
    LET stopped == [t EXCEPT !.isPlaying = FALSE]
    IN  IF IsNumber(t.animationFrameId)
        THEN [stopped EXCEPT !.pending = t.pending \ {ValueOf(t.animationFrameId)},
                             !.animationFrameId = Undefined]
        ELSE stopped

\* pause(), lines 221-231
Pause(t) ==
    LET stopped == [t EXCEPT !.isPlaying = FALSE, !.isPaused = TRUE]
    IN  IF IsNumber(t.animationFrameId)
        THEN [stopped EXCEPT !.pending = t.pending \ {ValueOf(t.animationFrameId)},
                             !.animationFrameId = Undefined]
        ELSE stopped

\* play(from), lines 237-271, called when the clock reads `clock`
Play(t, from, clock) ==
    IF t.isPlaying THEN t
    ELSE LET started == [t EXCEPT !.isPlaying = TRUE, !.isPaused = FALSE,
                                  !.playDirection = "forward"]
             resumed ==
                 \* line 248 reads isPlaying after line 242 has set it
                 LET reset == IF ~started.isPlaying /\ started.currentTime >= duration
                              THEN [started EXCEPT !.currentTime = 0]
                              ELSE started
                 IN  [reset EXCEPT !.startTime = Num(clock - reset.currentTime)]
             jumped ==
                 [started EXCEPT
                    !.startTime = Undefined,
                    !.repeatCount = 0,
                    !.currentTime =
                        IF from.kind = "number" THEN SecondsToMs(from.n)
                        ELSE IF IsNumber(LabelOf(labels, from.name))
                             THEN ValueOf(LabelOf(labels, from.name))
                             ELSE 0]
         IN  RequestAnimFrame(IF from.kind = "omitted" THEN resumed ELSE jumped)

\* duration + repeatDelay * 1000, lines 338 and 402
CycleDuration == duration + SecondsToMs(repeatDelay)

\* A slip in line 337: the elapsed time is folded into the cycle whatever
\* repeat is.
CalculateCurrentTimeFolded(t, time) ==
    LET elapsedTime == time - ValueOf(t.startTime)
        cycleDuration == CycleDuration
        cycleTime == JsRem(elapsedTime, cycleDuration)
        cycleNumber == elapsedTime \div cycleDuration
        currentEffectiveTime ==
            IF shouldYoyo /\ JsRem(cycleNumber, 2) = 1
            THEN cycleDuration - cycleTime
            ELSE cycleTime
    IN  [t EXCEPT !.currentTime =
            IF t.playDirection = "forward" THEN currentEffectiveTime
            ELSE Max(0, duration - currentEffectiveTime)]

\* calculateCurrentTime(time), lines 333-354
CalculateCurrentTime(t, time) ==
    LET elapsedTime == time - ValueOf(t.startTime)
        cycleDuration == CycleDuration
        cycleTime == JsRem(elapsedTime, cycleDuration)
        cycleNumber == elapsedTime \div cycleDuration
        currentEffectiveTime ==
            IF repeat # 0
            THEN IF shouldYoyo /\ JsRem(cycleNumber, 2) = 1
                 THEN cycleDuration - cycleTime
                 ELSE cycleTime
            ELSE elapsedTime
    IN  [t EXCEPT !.currentTime =
            IF t.playDirection = "forward" THEN currentEffectiveTime
            ELSE Max(0, duration - currentEffectiveTime)]

\* shouldRepeat(), lines 426-428
ShouldRepeat(t) == t.repeatCount < repeat \/ repeat = -1

Invoked(t, callback) == [t EXCEPT !.fired[callback] = @ + 1]

\* handleRepeatForward(time, totalDuration), lines 433-442
HandleRepeatForward(t, time, totalDuration) ==
    LET counted == [t EXCEPT !.repeatCount = @ + 1]
        turned == IF shouldYoyo THEN [counted EXCEPT !.playDirection = "backward"]
                  ELSE counted
    IN  [Invoked(turned, "onRepeat") EXCEPT
            !.startTime = Num(time - (t.currentTime - totalDuration))]

\* handleRepeatBackward(time), lines 447-453
HandleRepeatBackward(t, time) ==
    [Invoked([t EXCEPT !.repeatCount = @ + 1, !.playDirection = "forward"], "onRepeat")
        EXCEPT !.startTime = Num(time + t.currentTime)]

\* this.onCompleteCallback && this.onCompleteCallback(), line 408.  A handler
\* that calls play() reads the clock at the timestamp of the running tick.
OnComplete(t, time) ==
    IF onCompleteCallback = "play" THEN Play(Invoked(t, "onComplete"), Omitted, time)
    ELSE Invoked(t, "onComplete")

\* handleTimelineCompletion(time), lines 400-421
HandleTimelineCompletion(t, time) ==
    IF t.playDirection = "forward"
    THEN IF t.currentTime >= CycleDuration
         THEN IF ShouldRepeat(t) THEN HandleRepeatForward(t, time, CycleDuration)
              ELSE OnComplete(Pause(t), time)
         ELSE t
    ELSE IF t.currentTime <= 0
         THEN IF ShouldRepeat(t) THEN HandleRepeatBackward(t, time)
              ELSE Invoked(Pause(t), "onReverseComplete")
         ELSE t

\* requestNextFrame(), lines 458-464
RequestNextFrame(t) == IF t.isPlaying THEN RequestAnimFrame(t) ELSE t

\* runAnimations(time), lines 317-320: the startTime the tick runs with
AnchoredStartTime(t, time) ==
    IF ~IsNumber(t.startTime) \/ t.startTime = Num(0) THEN Num(time) ELSE t.startTime

\* runAnimations(time), lines 317-327: the fields after the tick.  The
\* onChange and onUpdate calls of processAnimations and handleTimelineUpdate
\* change no field; Frame applies them to the target.
RunAnimations(t, time) ==
    LET anchored == [t EXCEPT !.startTime = AnchoredStartTime(t, time)]
    IN  RequestNextFrame(
            HandleTimelineCompletion(CalculateCurrentTime(anchored, time), time))

\* the currentTime processAnimations reads, lines 317-323
TickTime(t, time) ==
    CalculateCurrentTime([t EXCEPT !.startTime = AnchoredStartTime(t, time)], time).currentTime

\* reverse(), lines 288-310, called when the clock reads `clock`
Reverse(t, clock) ==
    LET turned == [t EXCEPT !.playDirection = "backward"]
    IN  IF ~t.isPlaying
        THEN LET started ==
                     [turned EXCEPT !.isPlaying = TRUE, !.isPaused = FALSE,
                                    !.currentTime = IF t.currentTime >= duration
                                                    THEN duration ELSE t.currentTime]
             IN  RequestAnimFrame(
                     [started EXCEPT
                        !.startTime = Num(clock - (duration - started.currentTime))])
        ELSE [turned EXCEPT !.startTime = Num(clock - (duration - t.currentTime))]

\* A slip in lines 595-600: the direction is not read and play() resumes.
TogglePlayPauseForward(t, clock) ==
    IF t.isPlaying THEN Pause(t) ELSE Play(t, Omitted, clock)

\* togglePlayPause(), lines 591-603
TogglePlayPause(t, clock) ==
    IF t.isPlaying THEN Pause(t)
    ELSE IF t.playDirection = "forward" THEN Play(t, Omitted, clock)
         ELSE Reverse(t, clock)

----------------------------------------------------------------------------
(* The onChange calls of an entry, and what they write *)

\* the easing passed to to(): linear, (t, b, c, d) => b + (c * t) / d, the
\* quotient rounded down; 0 / 0 is NaN
Linear(t, b, c, d) ==
    IF b.nan \/ c.nan \/ d = 0 THEN NaN ELSE Value(b.v + (c.v * t) \div d)

\* the onChange closure of to(), lines 562-580, called with `elapsed` while
\* the object is obj.  startVal and endVal are JavaScript numbers, NaN
\* included, so the typeof test of line 568 passes.
OnChange(animation, elapsed, obj) ==
    [key \in DOMAIN obj |->
        IF key \in DOMAIN animation.endValues
        THEN Linear(elapsed, animation.startValues[key],
                    Minus(animation.endValues[key], animation.startValues[key]),
                    animation.duration)
        ELSE obj[key]]

\* one call of an entry's onChange
OnChangeCall(i, elapsed) == [entry |-> i, elapsed |-> elapsed]

\* the object after the onChange calls from the k-th on
RECURSIVE Applied(_, _, _, _)
Applied(anims, calls, k, obj) ==
    IF k > Len(calls) THEN obj
    ELSE Applied(anims, calls, k + 1,
                 OnChange(anims[calls[k].entry], calls[k].elapsed, obj))

\* A slip in lines 365-367: the window is taken half open, so a tick that
\* lands on the end of an entry leaves the entry out.
ProcessAnimationsHalfOpen(anims, ct) ==
    LET InWindow(i) ==
            /\ ct >= ResolveAnimationStartTime(anims[i])
            /\ ct < ResolveAnimationStartTime(anims[i]) + anims[i].duration
        entries == SelectSeq([i \in 1..Len(anims) |-> i], InWindow)
    IN  [k \in 1..Len(entries) |->
            OnChangeCall(entries[k],
                         Max(0, ct - ResolveAnimationStartTime(anims[entries[k]])))]

\* processAnimations(), lines 359-376: the onChange calls at currentTime ct
ProcessAnimations(anims, ct) ==
    LET InWindow(i) ==
            /\ ct >= ResolveAnimationStartTime(anims[i])
            /\ ct <= ResolveAnimationStartTime(anims[i]) + anims[i].duration
        entries == SelectSeq([i \in 1..Len(anims) |-> i], InWindow)
    IN  [k \in 1..Len(entries) |->
            OnChangeCall(entries[k],
                         Max(0, ct - ResolveAnimationStartTime(anims[entries[k]])))]

\* A slip in lines 496-508: an entry the playhead has passed is left where
\* the last tick put it.
SeekElapsedUnclamped(animation, ms) ==
    LET animationStart == SeekAnimationStart(animation)
    IN  IF ms < animationStart THEN 0 ELSE ms - animationStart

\* seek(), lines 494-508: the argument of the entry's onChange when
\* currentTime is ms
SeekElapsed(animation, ms) ==
    LET animationStart == SeekAnimationStart(animation)
        animationEnd == animationStart + animation.duration
    IN  IF ms >= animationStart /\ ms <= animationEnd THEN Max(0, ms - animationStart)
        ELSE IF ms < animationStart THEN 0
        ELSE animation.duration

\* seek(), lines 473-509: the onChange calls
SeekCalls(anims, ms) ==
    [i \in 1..Len(anims) |-> OnChangeCall(i, SeekElapsed(anims[i], ms))]

\* A slip in lines 470-471: seeking stops the loop.
SeekPausing(t, ms) == [Pause(t) EXCEPT !.currentTime = ms]

\* seek(time), lines 470-471, with ms the value of time * 1000
Seek(t, ms) == [t EXCEPT !.currentTime = ms]

\* A slip in line 277: only a negative value is rejected.
ProgressRejectedBelow(g) == g < 0

\* progress(value), lines 277-280, for a value of g halves
ProgressRejected(g) == g < 0 \/ g > 2

\* progress(value), line 281, then seek's line 471:
\* ((duration * value) / 1000) * 1000
ProgressMs(dur, g) == (dur * g) \div 2

\* one entry of the record of a tick: a callback the tick invoked, or the
\* frame it requested
Callback(name, i, elapsed) == [callback |-> name, entry |-> i, elapsed |-> elapsed]

\* runAnimations(time), lines 321-326: what the tick invokes, in the order of
\* the statements: the onChange calls of processAnimations, onUpdate, the
\* callback of handleTimelineCompletion if it invokes one, and the request of
\* requestNextFrame if it makes one
TickLog(t, time) ==
    LET computed ==
            CalculateCurrentTime([t EXCEPT !.startTime = AnchoredStartTime(t, time)], time)
        calls == ProcessAnimations(animations, computed.currentTime)
        completed == HandleTimelineCompletion(computed, time)
        Invokes(name) == completed.fired[name] > computed.fired[name]
        invoked == SelectSeq(<<"onRepeat", "onComplete", "onReverseComplete">>, Invokes)
    IN  [k \in 1..Len(calls) |-> Callback("onChange", calls[k].entry, calls[k].elapsed)]
        \o <<Callback("onUpdate", 0, 0)>>
        \o [k \in 1..Len(invoked) |-> Callback(invoked[k], 0, 0)]
        \o (IF completed.isPlaying THEN <<Callback("requestAnimFrame", 0, 0)>> ELSE <<>>)

\* the last onChange argument of each entry once `calls` have been made
Delivered(prior, calls) ==
    [i \in 1..Len(prior) |->
        IF \E k \in 1..Len(calls) : calls[k].entry = i
        THEN Num(calls[CHOOSE k \in 1..Len(calls) : calls[k].entry = i].elapsed)
        ELSE prior[i]]

----------------------------------------------------------------------------
(* Playback calls of the host, and the frames *)

\* what a harness can read off the Timeline and its target
Observed ==
    [fields |-> Fields, target |-> target, animations |-> animations,
     labels |-> labels, duration |-> duration, now |-> now, changes |-> changes]

\* the step recorded for the call or tick `op`
Stepped(op, from, n, gap) ==
    [op |-> op, from |-> from, n |-> n, gap |-> gap,
     calls |-> step.calls + (IF op = "frame" THEN 0 ELSE 1), props |-> NoProps,
     log |-> <<>>, before |-> Observed,
     prev |-> [op |-> step.op, from |-> step.from, n |-> step.n,
               playing |-> step.op # "none" /\ step.before.fields.isPlaying]]

\* The host calls play(from).
CallPlay(from) ==
    /\ Becomes(Play(Fields, from, now))
    /\ lastCall' = Call("play", from, 0, "", Undefined, duration)
    /\ loopAnchor' = Undefined
    /\ step' = Stepped("play", from, 0, 0)
    /\ changes' = <<>>
    /\ UNCHANGED <<animations, labels, duration, configVars, now, sequentialOnly,
                   delivered, target>>

\* The host calls pause().
CallPause ==
    /\ Becomes(Pause(Fields))
    /\ lastCall' = Call("pause", Omitted, 0, "", Undefined, duration)
    /\ step' = Stepped("pause", Omitted, 0, 0)
    /\ changes' = <<>>
    /\ UNCHANGED <<animations, labels, duration, configVars, now, sequentialOnly,
                   loopAnchor, delivered, target>>

\* The host calls reverse().
CallReverse ==
    /\ Becomes(Reverse(Fields, now))
    /\ lastCall' = Call("reverse", Omitted, 0, "", Undefined, duration)
    /\ step' = Stepped("reverse", Omitted, 0, 0)
    /\ changes' = <<>>
    /\ UNCHANGED <<animations, labels, duration, configVars, now, sequentialOnly,
                   loopAnchor, delivered, target>>

\* The host calls togglePlayPause().
CallTogglePlayPause ==
    /\ Becomes(TogglePlayPause(Fields, now))
    /\ lastCall' = Call("togglePlayPause", Omitted, 0, "", Undefined, duration)
    /\ step' = Stepped("togglePlayPause", Omitted, 0, 0)
    /\ changes' = <<>>
    /\ UNCHANGED <<animations, labels, duration, configVars, now, sequentialOnly,
                   loopAnchor, delivered, target>>

\* seek() from its first line on, lines 471-510, with ms the value of time * 1000
SeekTo(ms) ==
    /\ Becomes(Seek(Fields, ms))
    /\ changes' = SeekCalls(animations, ms)
    /\ delivered' = Delivered(delivered, changes')
    /\ target' = Applied(animations, changes', 1, target)

\* The host calls seek(h / 2).
CallSeek(h) ==
    /\ SeekTo(SecondsToMs(h))
    /\ lastCall' = Call("seek", Omitted, 0, "", Num(h), duration)
    /\ step' = Stepped("seek", Omitted, h, 0)
    /\ UNCHANGED <<animations, labels, duration, configVars, now, sequentialOnly,
                   loopAnchor>>

\* The host calls progress(g / 2), lines 276-283.
CallProgress(g) ==
    /\ IF ProgressRejected(g)
       THEN UNCHANGED <<timelineVars, pendingFrames, fired, delivered, target>>
            /\ changes' = <<>>
       ELSE SeekTo(ProgressMs(duration, g))
    /\ lastCall' = Call("progress", Omitted, 0, "", Num(g), duration)
    /\ step' = Stepped("progress", Omitted, g, 0)
    /\ UNCHANGED <<animations, labels, duration, configVars, now, sequentialOnly,
                   loopAnchor>>

\* The host sets a property of the target: object.set({[key]: v}).
SetTarget(key, v) ==
    /\ target' = [target EXCEPT ![key] = Value(v)]
    /\ step' = Stepped("set", Omitted, v, 0)
    /\ changes' = <<>>
    /\ UNCHANGED <<animations, labels, duration, timelineVars, configVars, hostVars,
                   lastCall, sequentialOnly, fired, loopAnchor, delivered>>

\* The host runs the frame callback with handle h, gap ms after the last event.
Frame(h, gap) ==
    /\ h \in pendingFrames
    /\ now + gap <= MaxClock
    /\ now' = now + gap
    /\ Becomes(RunAnimations([Fields EXCEPT !.pending = pendingFrames \ {h}], now'))
    /\ loopAnchor' = IF IsNumber(loopAnchor) THEN loopAnchor
                     ELSE AnchoredStartTime(Fields, now')
    /\ step' = [Stepped("frame", Omitted, h, gap) EXCEPT !.log = TickLog(Fields, now')]
    /\ changes' = ProcessAnimations(animations, TickTime(Fields, now'))
    /\ delivered' = Delivered(delivered, changes')
    /\ target' = Applied(animations, changes', 1, target)
    /\ UNCHANGED <<animations, labels, duration, configVars, lastCall, sequentialOnly>>

----------------------------------------------------------------------------
(* A run: a Timeline is constructed, a chain of to() calls fills it, play() *)
(* is called once and the frames arrive.                                   *)

InitRun ==
    /\ \E rep \in Repeats, delay \in RepeatDelays, yoyo \in BOOLEAN :
          Constructed(rep, delay, yoyo, "observer")
    /\ now \in StartClocks

Played == lastCall.op = "play"

NextRun ==
    \/ \E d \in PlayedDurations :
          ~Played /\ Len(animations) < MaxPlayedEntries /\ To(Omitted, d)
    \/ ~Played /\ CycleDuration > 0 /\ CallPlay(Omitted)
    \/ \E h \in pendingFrames, gap \in FrameGaps : Frame(h, gap)

SpecRun == InitRun /\ [][NextRun]_vars

----------------------------------------------------------------------------
(* Claims about a run, checked under SpecRun *)

Ticked == IsNumber(loopAnchor)
\* the time played since the loop's first anchor
Elapsed == now - ValueOf(loopAnchor)

\* C1: with repeat: 2 and yoyo: true, play() and no pause, cycle 0 runs
\* forward, cycle 1 backward and cycle 2 forward, and onComplete fires exactly
\* once, when cycle 2 has finished and not before.  Cycle k is the k-th
\* stretch of `duration` ms of playing time.
C1_YoyoThreeCycles ==
    (Played /\ Ticked /\ duration > 0 /\ shouldYoyo /\ repeat = 2 /\ repeatDelay = 0) =>
        LET k == Elapsed \div duration
            into == Elapsed - k * duration
        IN  /\ (isPlayingInternal /\ k <= 2) =>
                  currentTime = IF k = 1 THEN duration - into ELSE into
            /\ fired.onComplete <= 1
            /\ fired.onComplete = 1 <=> k >= 3
            /\ fired.onComplete = 1 => ~isPlayingInternal /\ repeatCount = 2

\* C2: with a finite repeat N >= 0 and yoyo off, play() and no pause,
\* playback stops on its own, and by then onRepeat has fired N times,
\* repeatCount is N and onComplete has fired once.  The N + 1 cycles take
\* N + 1 cycle durations of playing time: a tick at or after that finds the
\* Timeline stopped.
C2_StopsAfterRepeats ==
    (Played /\ duration > 0 /\ ~shouldYoyo /\ repeat >= 0) =>
        /\ ~isPlayingInternal =>
              /\ isPausedInternal
              /\ pendingFrames = {}
              /\ fired.onRepeat = repeat
              /\ repeatCount = repeat
              /\ fired.onComplete = 1
        /\ isPlayingInternal => fired.onComplete = 0
        /\ (Ticked /\ Elapsed >= (repeat + 1) * CycleDuration) => ~isPlayingInternal

\* What the code does instead, in every run of SpecRun: with yoyo off and
\* repeat >= 1 the forward playhead is elapsed % cycleDuration, which never
\* reaches cycleDuration, so no cycle is ever counted and playback goes on.
C2_LoopsWithoutCounting ==
    (Played /\ duration > 0 /\ ~shouldYoyo /\ repeat >= 1) =>
        /\ isPlayingInternal
        /\ currentTime < CycleDuration
        /\ repeatCount = 0
        /\ fired = [onRepeat |-> 0, onComplete |-> 0, onReverseComplete |-> 0]

----------------------------------------------------------------------------
(* Claims about building a timeline, checked under Spec *)

Last == animations[Len(animations)]
LastIsTo(kind) == lastCall.op = "to" /\ lastCall.tok.kind = kind

RECURSIVE SumOfDurations(_, _)
SumOfDurations(anims, n) ==
    IF n = 0 THEN 0 ELSE SumOfDurations(anims, n - 1) + anims[n].duration

\* C3: in a chain of to() calls that all omit the position, after each call
\* duration is the sum of the durations of the entries added so far and each
\* entry's resolved start is the sum of the durations of the entries before it.
C3_SequentialChainSums ==
    sequentialOnly =>
        /\ duration = SumOfDurations(animations, Len(animations))
        /\ \A i \in 1..Len(animations) :
              animations[i].position = Num(SumOfDurations(animations, i - 1))

C3_Witness ==
    /\ sequentialOnly
    /\ Len(animations) = 3
    /\ animations[1].duration = 1000
    /\ animations[2].duration = 500
    /\ animations[3].duration = 1000
    /\ duration = 2500

SetMax(S) == CHOOSE x \in S : \A y \in S : y <= x

\* The start and end the claim gives entry i: its resolved position when that
\* is a number, otherwise the greatest end of the entries inserted before it
\* (0 when it is the first).
RECURSIVE ClaimedEnd(_, _)
ClaimedStart(anims, i) ==
    IF IsNumber(anims[i].position) THEN ValueOf(anims[i].position)
    ELSE IF i = 1 THEN 0
    ELSE SetMax({ClaimedEnd(anims, j) : j \in 1..(i - 1)})
ClaimedEnd(anims, i) == ClaimedStart(anims, i) + anims[i].duration

\* C4 as stated: duration is the maximum over all entries of (effective start
\* + entry duration), and 0 for a Timeline with no entries.
C4_DurationIsMaxEnd ==
    duration = IF Len(animations) = 0 THEN 0
               ELSE SetMax({ClaimedEnd(animations, i) : i \in 1..Len(animations)})

\* The same with every maximum taken together with 0.
RECURSIVE FlooredEnd(_, _)
FlooredStart(anims, i) ==
    IF IsNumber(anims[i].position) THEN ValueOf(anims[i].position)
    ELSE SetMax({0} \cup {FlooredEnd(anims, j) : j \in 1..(i - 1)})
FlooredEnd(anims, i) == FlooredStart(anims, i) + anims[i].duration

\* C4, amended: after every insertion duration is the maximum of 0 and of
\* (effective start + entry duration) over all entries, where the effective
\* start of an entry is its resolved position when numeric and otherwise the
\* maximum of 0 and the end times of the entries inserted before it.
C4_DurationIsMaxEndOrZero ==
    duration = SetMax({0} \cup {FlooredEnd(animations, i) : i \in 1..Len(animations)})

C4_Witness ==
    /\ lastCall.op = "to"
    /\ Len(animations) = 3
    /\ \E i \in 1..3 : ~IsNumber(animations[i].position) /\ animations[i].duration > 0
    /\ \E i \in 1..3 : IsNumber(animations[i].position)
                       /\ ValueOf(animations[i].position) + animations[i].duration < 0
    /\ duration > 0

\* C5: an entry added with '-=N', N >= 0, gets the resolved start
\* max(0, D - N*1000), D the duration just before the insertion.
C5_MinusEqualsStartsBeforeEnd ==
    (LastIsTo("-=") /\ lastCall.tok.n >= 0) =>
        Last.position = Num(Max(0, lastCall.preDuration - SecondsToMs(lastCall.tok.n)))

\* C6: an entry added with the name of an existing label as position gets the
\* resolved start labels[name], whatever the stored time, and duration is
\* computed from that start.
C6_ExistingLabelResolves ==
    (LastIsTo("label") /\ IsNumber(LabelOf(labels, lastCall.tok.name))) =>
        /\ Last.position = LabelOf(labels, lastCall.tok.name)
        /\ duration = Max(lastCall.preDuration,
                          ValueOf(LabelOf(labels, lastCall.tok.name)) + Last.duration)

\* C7: for an entry added with the name of a label that does not exist, the
\* start used by the frame tick and by seek() is the start used by the
\* duration calculation: the maximum end time of the entries inserted before.
C7_UnknownLabelStartsAgree ==
    (LastIsTo("label") /\ ~IsNumber(LabelOf(labels, lastCall.tok.name))) =>
        LET before == CalculateDuration(SubSeq(animations, 1, Len(animations) - 1))
        IN  /\ duration = Max(before, before + Last.duration)
            /\ ResolveAnimationStartTime(Last) = before
            /\ SeekAnimationStart(Last) = before

\* The start and duration of the entry added before the last one; both 0 when
\* there is none, and a start of 0 when its position was left unresolved.
PrevStart ==
    IF Len(animations) >= 2 /\ IsNumber(animations[Len(animations) - 1].position)
    THEN ValueOf(animations[Len(animations) - 1].position) ELSE 0
PrevDuration ==
    IF Len(animations) >= 2 THEN animations[Len(animations) - 1].duration ELSE 0

C9_PlusEqualsAfterPrevious ==
    (LastIsTo("+=") /\ \A i \in 1..(Len(animations) - 1) :
                          IsNumber(animations[i].position)
                          /\ ValueOf(animations[i].position) >= 0) =>
        Last.position = Num(PrevStart + PrevDuration + SecondsToMs(lastCall.tok.n))

\* C10: addLabel(name, p) stores p*1000, or the current duration when p is
\* omitted, and leaves duration alone; an entry added afterwards with that
\* label as position starts at the stored time: the tick and seek() start it
\* there and duration counts it from there.
C10_AddLabelThenUse ==
    /\ lastCall.op = "addLabel" =>
          /\ labels[lastCall.name] =
                Num(IF IsNumber(lastCall.at) THEN SecondsToMs(ValueOf(lastCall.at))
                    ELSE lastCall.preDuration)
          /\ duration = lastCall.preDuration
    /\ (LastIsTo("label") /\ IsNumber(LabelOf(labels, lastCall.tok.name))) =>
          LET stored == ValueOf(LabelOf(labels, lastCall.tok.name))
          IN  /\ ResolveAnimationStartTime(Last) = stored
              /\ SeekAnimationStart(Last) = stored
              /\ duration = Max(lastCall.preDuration, stored + Last.duration)

----------------------------------------------------------------------------
(* A driven timeline: a Timeline is constructed, a to() call and a label    *)
(* fill it, and the host then makes playback calls between frames.         *)

\* the arguments of play(): none, 0.5, a label
PlayFroms == {Omitted, Token("number", 1, ""), Token("label", 0, "a")}

InitHost ==
    /\ \E o \in HostOptions : Constructed(o[1], o[2], o[3], o[4])
    /\ now \in HostStartClocks

Driven == lastCall.op \notin {"none", "to", "addLabel"}
MayCall == duration > 0 /\ IsNumber(labels["a"]) /\ step.calls < MaxHostCalls

NextHost ==
    \/ \E d \in PlayedDurations :
          ~Driven /\ animations = <<>> /\ To(Omitted, d)
    \/ ~Driven /\ labels["a"] = Undefined /\ AddLabel("a", Num(1))
    \/ \E from \in PlayFroms : MayCall /\ CallPlay(from)
    \/ MayCall /\ CallPause
    \/ MayCall /\ CallReverse
    \/ MayCall /\ CallTogglePlayPause
    \/ \E h \in HostSeekArgs : MayCall /\ CallSeek(h)
    \/ \E g \in HostProgressArgs : MayCall /\ CallProgress(g)
    \/ \E h \in pendingFrames, gap \in FrameGaps :
          now + gap <= MaxHostClock /\ Frame(h, gap)

SpecHost == InitHost /\ [][NextHost]_vars

----------------------------------------------------------------------------
(* A sought timeline: to() calls fill a Timeline, and seek() and progress() *)
(* move its playhead.                                                      *)

\* the positions passed to to() on a timeline that is sought
SeekTokens == {Omitted, Token("number", 1, ""), Token("label", 0, "ghost")}

MaySeek == step.calls < MaxSeekCalls

NextSeek ==
    \/ \E tok \in SeekTokens, d \in Durations :
          Len(animations) < MaxSeekEntries /\ To(tok, d)
    \/ \E h \in SeekArgs : MaySeek /\ CallSeek(h)
    \/ \E g \in ProgressArgs : MaySeek /\ CallProgress(g)

SpecSeek == Init /\ [][NextSeek]_vars

----------------------------------------------------------------------------
(* A tweened target: to() calls with properties fill a Timeline one after  *)
(* the other, the host sets the target's left, and seek() moves the        *)
(* playhead.                                                               *)

\* the properties maps passed to to()
PropsArgs ==
    {("left" :> EndToken("+=", 50)), ("left" :> EndToken("-=", 50)),
     ("left" :> EndToken("number", 100)),
     ("left" :> EndToken("unparsable", 0)) @@ ("top" :> EndToken("numeric", 100))}
\* the value the host sets the target's left to
SetArgs == {20}

NextTween ==
    \/ \E props \in PropsArgs, d \in PlayedDurations :
          Len(animations) < MaxSeekEntries /\ ToProps(props, Omitted, d)
    \/ \E v \in SetArgs : MaySeek /\ SetTarget("left", v)
    \/ \E h \in SeekArgs : MaySeek /\ CallSeek(h)

SpecTween == Init /\ [][NextTween]_vars

----------------------------------------------------------------------------
(* Claims about playback calls, checked under SpecHost *)

\* the call or tick just made, and the one before it
Called(op) == step.op = op
WasPlaying == step.before.fields.isPlaying
\* the first tick after the call op, made on a timeline that was not playing
FirstTickAfter(op) == step.op = "frame" /\ step.prev.op = op /\ ~step.prev.playing
\* the currentTime the call returned with, and the time from the call to the tick
AfterCall == step.before.fields.currentTime
SinceCall == step.gap

\* the position play(from) names, in ms
FromTime(from) ==
    IF from.kind = "number" THEN from.n * 500 ELSE ValueOf(labels[from.name])

\* C11: play(from) on a timeline that is not playing, with from a number of
\* seconds or the name of an existing label, returns with the repeat counter
\* 0, currentTime at that position and the timeline playing forward, and the
\* first tick after the call computes a currentTime that is at least that
\* position: playback does not restart from 0.
C11_PlayFromStartsThere ==
    /\ (Called("play") /\ step.from.kind # "omitted" /\ ~WasPlaying) =>
            /\ repeatCount = 0
            /\ currentTime = FromTime(step.from)
            /\ isPlayingInternal /\ playDirection = "forward"
    /\ (FirstTickAfter("play") /\ step.prev.from.kind # "omitted") =>
            currentTime >= AfterCall

\* C12: play() with no argument on a timeline that is not playing sets the
\* direction forward, isPlaying true and isPaused false and resumes from the
\* playhead: a currentTime at or past duration is first reset to 0, any other
\* is kept, and with repeat = 0 the first tick, dt ms after the call,
\* computes currentTime = (currentTime after the call) + dt.  play() on a
\* playing timeline changes no field and requests no frame.
C12_PlayResumes ==
    /\ (Called("play") /\ step.from.kind = "omitted" /\ ~WasPlaying) =>
            /\ isPlayingInternal /\ ~isPausedInternal /\ playDirection = "forward"
            /\ currentTime = IF step.before.fields.currentTime >= duration THEN 0
                              ELSE step.before.fields.currentTime
    /\ (FirstTickAfter("play") /\ step.prev.from.kind = "omitted" /\ repeat = 0) =>
            currentTime = AfterCall + SinceCall
    /\ (Called("play") /\ WasPlaying) => Fields = step.before.fields

\* C13: pause() in any state leaves isPlaying false and isPaused true and no
\* frame callback pending, and does not change currentTime, the direction or
\* the repeat counter; no tick runs after it until play(), reverse() or
\* togglePlayPause() is called; a second pause() in a row leaves every field
\* as the first did.
C13_PauseStops ==
    /\ Called("pause") =>
            /\ ~isPlayingInternal /\ isPausedInternal
            /\ pendingFrames = {}
            /\ currentTime = step.before.fields.currentTime
            /\ playDirection = step.before.fields.playDirection
            /\ repeatCount = step.before.fields.repeatCount
    /\ Called("frame") => step.prev.op # "pause"
    /\ (Called("pause") /\ step.prev.op = "pause") => Fields = step.before.fields

Min(a, b) == IF a <= b THEN a ELSE b
\* the fields a reverse() on a playing timeline may change are blanked
ButAnchor(t) == [t EXCEPT !.playDirection = "backward", !.startTime = Undefined]

\* C14: reverse() sets the direction backward.  On a timeline that is not
\* playing it starts one frame loop, and with c the smaller of currentTime at
\* the call and duration, the first tick, dt ms after the call, computes
\* currentTime = max(0, c - dt).  On a playing timeline it requests no frame
\* and changes only the anchor, and the next tick continues downward from
\* the currentTime at the call, without a jump: it computes a currentTime
\* between max(0, that - dt) and that.
C14_ReverseCountsDown ==
    /\ Called("reverse") => playDirection = "backward"
    /\ (Called("reverse") /\ ~WasPlaying) =>
            /\ isPlayingInternal /\ ~isPausedInternal
            /\ Cardinality(pendingFrames) = Cardinality(step.before.fields.pending) + 1
            /\ currentTime = Min(step.before.fields.currentTime, duration)
    /\ FirstTickAfter("reverse") => currentTime = Max(0, AfterCall - SinceCall)
    /\ (Called("reverse") /\ WasPlaying) => ButAnchor(Fields) = ButAnchor(step.before.fields)
    /\ (Called("frame") /\ step.prev.op = "reverse" /\ step.prev.playing) =>
            currentTime <= AfterCall /\ currentTime >= Max(0, AfterCall - SinceCall)

\* C15: togglePlayPause() has exactly the effect of pause() on a playing
\* timeline, and on one that is not playing exactly the effect of play() when
\* the direction is forward and of reverse() when it is backward; a timeline
\* paused during backward playback resumes backward from the same currentTime.
C15_ToggleDelegates ==
    Called("togglePlayPause") =>
        LET b == step.before.fields
        IN  /\ b.isPlaying => Fields = Pause(b)
            /\ (~b.isPlaying /\ b.playDirection = "forward") => Fields = Play(b, Omitted, now)
            /\ (~b.isPlaying /\ b.playDirection = "backward") =>
                    /\ Fields = Reverse(b, now)
                    /\ isPlayingInternal /\ playDirection = "backward"
                    /\ b.currentTime <= duration => currentTime = b.currentTime

\* togglePlayPause() resumes a timeline that was paused in the middle of
\* backward playback
C15_Witness ==
    /\ Called("togglePlayPause") /\ step.prev.op = "pause"
    /\ ~WasPlaying /\ step.before.fields.isPaused
    /\ step.before.fields.playDirection = "backward"
    /\ step.before.fields.currentTime > 0 /\ step.before.fields.currentTime < duration
    /\ isPlayingInternal /\ playDirection = "backward"

\* C17: seek(t) and progress(f) change no state of the Timeline other than
\* currentTime: isPlaying, isPaused, the direction, the repeat counter, the
\* anchor, the pending frame and its handle, the entries, the labels and
\* duration are what they were before the call, in every play state.
C17_SeekKeepsPlayState ==
    (Called("seek") \/ Called("progress")) =>
        /\ [Fields EXCEPT !.currentTime = 0] = [step.before.fields EXCEPT !.currentTime = 0]
        /\ animations = step.before.animations
        /\ labels = step.before.labels
        /\ duration = step.before.duration

\* seek() moves the playhead of a playing timeline whose frame is pending
C17_Witness ==
    /\ Called("seek") /\ WasPlaying
    /\ currentTime # step.before.fields.currentTime
    /\ isPlayingInternal /\ pendingFrames # {}

----------------------------------------------------------------------------
(* Claims about seek() and progress(), checked under SpecSeek *)

\* the start of entry i: its resolved position, and for an entry with no
\* resolved position the 0 seek() takes (claim C7 is about that start)
EntryStart(i) ==
    IF IsNumber(animations[i].position) THEN ValueOf(animations[i].position) ELSE 0
EntryEnd(i) == EntryStart(i) + animations[i].duration

\* C16: seek(t) sets currentTime to t * 1000 and calls every entry's onChange
\* exactly once, in insertion order, with 0 when t * 1000 is before the
\* entry's start, with t * 1000 - start when it lies in [start, start +
\* duration], and with the entry's duration when it is past that window; a
\* seek(t) right after a seek(t) delivers the same arguments.
C16_SeekEvaluatesEveryEntry ==
    Called("seek") =>
        LET ms == step.n * 500
        IN  /\ currentTime = ms
            /\ Len(changes) = Len(animations)
            /\ \A i \in 1..Len(animations) :
                    /\ changes[i].entry = i
                    /\ ms < EntryStart(i) => changes[i].elapsed = 0
                    /\ (ms >= EntryStart(i) /\ ms <= EntryEnd(i)) =>
                            changes[i].elapsed = ms - EntryStart(i)
                    /\ ms > EntryEnd(i) => changes[i].elapsed = animations[i].duration
            /\ (step.prev.op = "seek" /\ step.prev.n = step.n) =>
                    changes = step.before.changes

\* two sequential entries of 1 s and seek(1.5), repeated: the first entry
\* gets 1000 and the second 500
C16_Witness ==
    /\ Called("seek") /\ step.n = 3 /\ step.prev.op = "seek" /\ step.prev.n = 3
    /\ Len(animations) = 2
    /\ animations[1].position = Num(0) /\ animations[1].duration = 1000
    /\ animations[2].position = Num(1000) /\ animations[2].duration = 1000
    /\ changes = <<OnChangeCall(1, 1000), OnChangeCall(2, 500)>>

\* C18: for f in [0, 1], progress(f) has exactly the effect of
\* seek(duration * f / 1000): currentTime becomes duration * f and every
\* entry's onChange is called as that seek() calls it; for f < 0 or f > 1 the
\* call does nothing: currentTime and every other field are unchanged and no
\* onChange is called.  f is step.n halves.
C18_ProgressIsSeek ==
    Called("progress") =>
        LET b == step.before
            ms == (b.duration * step.n) \div 2
        IN  IF step.n < 0 \/ step.n > 2
            THEN Fields = b.fields /\ changes = <<>> /\ target = b.target
            ELSE /\ currentTime = ms
                 /\ Fields = Seek(b.fields, ms)
                 /\ changes = SeekCalls(animations, ms)
                 /\ target = Applied(animations, changes, 1, b.target)

\* progress(0.5) has moved the playhead to the middle of a timeline, and
\* progress(1.5) has left it there
C18_Witness ==
    /\ Called("progress") /\ step.n = 3
    /\ step.prev.op = "progress" /\ step.prev.n = 1
    /\ duration > 0 /\ currentTime * 2 = duration

----------------------------------------------------------------------------
(* Claims about the properties to() animates, checked under SpecTween *)

\* to() has just returned
JustAdded == lastCall.op = "to" /\ step.op = "none"
\* entry i animates the property key, and no later entry does
LastWriter(i, key) ==
    /\ key \in DOMAIN animations[i].endValues
    /\ \A j \in (i + 1)..Len(animations) : key \notin DOMAIN animations[j].endValues

\* C19: to() with '+=N' or '-=N' for a property fixes the end value when it
\* is called, as the target's value of the property at that moment plus or
\* minus N; setting the target or seeking afterwards changes no entry; and
\* with the linear easing, whose value at the full duration d > 0 is start +
\* change, seek() to the end of an entry leaves the end value in every
\* property of which the entry is the last writer and which held a number
\* when to() was called.
C19_RelativeEndFixedAtBuild ==
    /\ JustAdded =>
            \A key \in DOMAIN step.props :
                /\ animations[Len(animations)].startValues[key] = target[key]
                /\ step.props[key].kind = "+=" =>
                        animations[Len(animations)].endValues[key]
                            = Plus(target[key], Value(step.props[key].n))
                /\ step.props[key].kind = "-=" =>
                        animations[Len(animations)].endValues[key]
                            = Minus(target[key], Value(step.props[key].n))
    /\ (Called("set") \/ Called("seek")) => animations = step.before.animations
    /\ Called("seek") =>
            \A i \in 1..Len(animations), key \in DOMAIN target :
                (/\ LastWriter(i, key)
                 /\ ~animations[i].startValues[key].nan
                 /\ animations[i].duration > 0
                 /\ currentTime = EntryEnd(i)) =>
                    target[key] = animations[i].endValues[key]

\* obj.left is 10 when to(obj, {left: '+=50'}, 1) is called, the host sets it
\* to 20, and seek(1) leaves it at 60
C19_Witness ==
    /\ Called("seek") /\ step.n = 2 /\ step.prev.op = "set"
    /\ Len(animations) = 1 /\ animations[1].duration = 1000
    /\ animations[1].startValues = ("left" :> Value(10))
    /\ animations[1].endValues = ("left" :> Value(60))
    /\ step.before.target.left = Value(20)
    /\ target.left = Value(60)

\* entry i was given, for the property key, a string that is no relative
\* token and that parseFloat reads as no number
Unparsable(i, key) ==
    /\ key \in DOMAIN animations[i].endValues
    /\ animations[i].endValues[key].nan
    /\ ~animations[i].startValues[key].nan

\* C20: a property whose end value cannot be parsed as a number is skipped:
\* seek() never writes it, so when every entry that names the property gave
\* it such a value the target keeps the value it had, while the other
\* properties of the same entry are interpolated (at the end of the entry
\* they hold their end values).
C20_UnparsableSkipped ==
    Called("seek") =>
        \A key \in DOMAIN target :
            /\ (\A i \in 1..Len(animations) :
                    key \in DOMAIN animations[i].endValues => Unparsable(i, key))
                => target[key] = step.before.target[key]
            /\ \A i \in 1..Len(animations) :
                    (/\ \E other \in DOMAIN target : Unparsable(i, other)
                     /\ LastWriter(i, key) /\ ~Unparsable(i, key)
                     /\ ~animations[i].startValues[key].nan
                     /\ animations[i].duration > 0
                     /\ currentTime = EntryEnd(i))
                    => target[key] = animations[i].endValues[key]

----------------------------------------------------------------------------
(* Claims about one tick of the frame loop *)

\* the tick just run found the Timeline playing backward and computed a
\* currentTime at or below 0
BackwardEnd ==
    /\ Called("frame")
    /\ step.before.fields.isPlaying
    /\ step.before.fields.playDirection = "backward"
    /\ currentTime <= 0

\* C21: a tick of backward playback that computes a currentTime <= 0 mirrors
\* the forward end.  With repeat budget left, repeatCount is incremented,
\* onRepeat fires once and nothing else, the loop is re-anchored at the
\* tick's timestamp and goes on, and the direction becomes forward only if
\* yoyo is on and stays backward otherwise.  With the budget used up the
\* Timeline pauses, onReverseComplete fires exactly once and onComplete does
\* not fire.  Checked under SpecSeekPlaying, where reverse() starts a Timeline
\* that repeats with a delay.
C21_BackwardEndMirrorsForward ==
    BackwardEnd =>
        LET before == step.before.fields
        IN  IF before.repeatCount < repeat
            THEN /\ repeatCount = before.repeatCount + 1
                 /\ fired = [before.fired EXCEPT !.onRepeat = @ + 1]
                 /\ startTime = Num(now)
                 /\ isPlayingInternal
                 /\ playDirection = IF shouldYoyo THEN "forward" ELSE "backward"
            ELSE /\ ~isPlayingInternal
                 /\ isPausedInternal
                 /\ fired = [before.fired EXCEPT !.onReverseComplete = @ + 1]

\* the entries whose window [start, start + duration] contains currentTime,
\* in insertion order
EntriesInWindow ==
    LET Contains(i) == EntryStart(i) <= currentTime /\ currentTime <= EntryEnd(i)
    IN  SelectSeq([i \in 1..Len(animations) |-> i], Contains)

\* C22: a tick does its steps in this order.  The currentTime it computed is
\* the one every later step uses; onChange(currentTime - start) is invoked, in
\* insertion order, for exactly the entries whose window [start, start +
\* duration] contains that currentTime; then onUpdate is invoked once; then
\* at most one of onRepeat, onComplete and onReverseComplete; then the next
\* frame is requested if and only if the Timeline is still playing.
\* Checked under SpecRun, where two entries can share a boundary.
C22_TickOrder ==
    Called("frame") =>
        LET n == Len(EntriesInWindow)
            rest == SubSeq(step.log, n + 2, Len(step.log))
            IsCompletion(c) ==
                c.callback \in {"onRepeat", "onComplete", "onReverseComplete"}
            IsRequest(c) == c.callback = "requestAnimFrame"
        IN  /\ Len(step.log) >= n + 1
            /\ \A k \in 1..n :
                  step.log[k] = Callback("onChange", EntriesInWindow[k],
                                         currentTime - EntryStart(EntriesInWindow[k]))
            /\ step.log[n + 1] = Callback("onUpdate", 0, 0)
            /\ rest = SelectSeq(rest, IsCompletion) \o SelectSeq(rest, IsRequest)
            /\ Len(SelectSeq(rest, IsCompletion)) <= 1
            /\ Len(SelectSeq(rest, IsRequest)) = IF isPlayingInternal THEN 1 ELSE 0

\* a tick that lands on the boundary of two entries calls both, the earlier
\* first, then onUpdate, and requests the next frame
C22_Witness ==
    /\ Called("frame")
    /\ Len(EntriesInWindow) = 2
    /\ step.log[1].entry = 1 /\ step.log[1].elapsed = animations[1].duration
    /\ step.log[2].entry = 2 /\ step.log[2].elapsed = 0
    /\ step.log[3].callback = "onUpdate"
    /\ step.log[4].callback = "requestAnimFrame"

\* the startTime the tick just run measured from, and the time elapsed since
TickAnchor == ValueOf(AnchoredStartTime(step.before.fields, now))
TickElapsed == now - TickAnchor

\* the playhead for a time e into the cycle, in the direction the tick found
Directed(e) ==
    IF step.before.fields.playDirection = "forward" THEN e ELSE Max(0, duration - e)

\* the playhead for the elapsed time e folded into the cycle: e modulo
\* cycleDuration, counted from the cycle's end in the odd cycles of a yoyo
Folded(e) ==
    LET cycleTime == e % CycleDuration
    IN  Directed(IF shouldYoyo /\ (e \div CycleDuration) % 2 = 1
                 THEN CycleDuration - cycleTime
                 ELSE cycleTime)

\* C23 as stated, checked under SpecHost: on every tick, whatever repeat is (0 included), with e the
\* tick's timestamp minus the anchor, currentTime is e modulo cycleDuration
\* (cycleDuration minus that in the odd cycles of a yoyo) when playing
\* forward, and max(0, duration - that) when playing backward.
C23_FoldsWhateverRepeat ==
    Called("frame") => currentTime = Folded(TickElapsed)

\* C23, amended: on every tick with e >= 0, currentTime is folded in that way
\* when repeat is not 0; when repeat is 0 nothing is folded, and currentTime
\* is e when playing forward and max(0, duration - e) when playing backward.
C23_FoldsWhenRepeating ==
    (Called("frame") /\ TickElapsed >= 0) =>
        currentTime = IF repeat = 0 THEN Directed(TickElapsed) ELSE Folded(TickElapsed)

\* a forward tick with repeat = 0 past the end of the cycle: the playhead is
\* the whole elapsed time
C23_Witness ==
    /\ Called("frame")
    /\ repeat = 0
    /\ step.before.fields.playDirection = "forward"
    /\ TickElapsed > CycleDuration
    /\ currentTime = TickElapsed

\* C24: whenever a tick has finished or a public call has returned, the
\* playhead is inside the timeline: 0 <= currentTime <= duration.  Checked
\* under SpecRun, where no call but play() moves the playhead.
C24_PlayheadInside == 0 <= currentTime /\ currentTime <= duration

\* C25: at most one frame callback of the Timeline is outstanding at any
\* time and animationFrameId holds its handle, whatever play, reverse, pause,
\* togglePlayPause and seek calls were made and wherever they were made from,
\* an onComplete handler that calls play() included; so a pause() leaves no
\* frame callback outstanding.  Checked under SpecHost.
C25_OneFrameOutstanding ==
    /\ Cardinality(pendingFrames) <= 1
    /\ \A h \in pendingFrames : animationFrameId = Num(h)
    /\ Called("pause") => pendingFrames = {}

\* C26: when forward playback with repeat = 0 has completed on its own
\* (play() once, no other call, onComplete fired), every entry of positive
\* duration has been left in its end state: the last argument its onChange
\* was called with is its full duration, however the frame timestamps are
\* spaced.  Checked under SpecRun.
C26_CompletedEntriesAtEnd ==
    (Played /\ repeat = 0 /\ fired.onComplete >= 1) =>
        \A i \in 1..Len(animations) :
            animations[i].duration > 0 => delivered[i] = Num(animations[i].duration)

----------------------------------------------------------------------------
(* Seeking during playback: a Timeline with one entry is started with      *)
(* play() or reverse(), and seek() is called while the frames arrive.      *)

\* the constructor options of such a timeline: repeat, repeatDelay (in half
\* seconds), yoyo and what onComplete does
SeekPlayingOptions ==
    {<<0, 0, FALSE, "observer">>, <<1, 1, FALSE, "observer">>, <<1, 0, TRUE, "observer">>}

InitSeekPlaying ==
    /\ \E o \in SeekPlayingOptions : Constructed(o[1], o[2], o[3], o[4])
    /\ now \in HostStartClocks

Started == lastCall.op \notin {"none", "to"}

NextSeekPlaying ==
    \/ \E d \in PlayedDurations : animations = <<>> /\ To(Omitted, d)
    \/ ~Started /\ duration > 0 /\ CallPlay(Omitted)
    \/ ~Started /\ duration > 0 /\ CallReverse
    \/ \E h \in SeekArgs :
          Started /\ isPlayingInternal /\ step.calls <= MaxSeekCalls /\ CallSeek(h)
    \/ \E h \in pendingFrames, gap \in FrameGaps :
          now + gap <= MaxHostClock /\ Frame(h, gap)

SpecSeekPlaying == InitSeekPlaying /\ [][NextSeekPlaying]_vars

\* the tick just run is the first after a seek(t) made while the Timeline
\* was playing, with 0 <= t * 1000 <= duration
TickAfterSeek ==
    /\ Called("frame")
    /\ step.prev.op = "seek" /\ step.prev.playing
    /\ step.prev.n * 500 <= duration

\* C27: seek(t) while the Timeline is playing (repeat = 0, 0 <= t * 1000 <=
\* duration) moves the playhead of the playback that goes on: the tick that
\* arrives dt ms after the seek computes currentTime t * 1000 + dt when
\* playing forward and max(0, t * 1000 - dt) when playing backward.  Checked
\* under SpecSeekPlaying.
C27_SeekMovesPlayback ==
    (TickAfterSeek /\ repeat = 0) =>
        currentTime = IF step.before.fields.playDirection = "forward"
                      THEN step.prev.n * 500 + SinceCall
                      ELSE Max(0, step.prev.n * 500 - SinceCall)

----------------------------------------------------------------------------
(* The play state, checked under SpecHost *)

\* neither playing nor paused
Idle == ~isPlayingInternal /\ ~isPausedInternal

\* C28: isPlaying and isPaused are never both true.  They are both false
\* only before the first play(), reverse(), pause() or togglePlayPause()
\* call: such a call never returns with both false, and no step leads from
\* a state where one of them is true to one where both are false.  Between
\* ticks, when no handler calls back into the Timeline, isPlaying is true if
\* and only if a frame callback is pending.
C28_PlayingXorPausedOnceStarted ==
    /\ [](~(isPlayingInternal /\ isPausedInternal))
    /\ [](step.op \in {"play", "reverse", "pause", "togglePlayPause"} => ~Idle)
    /\ [][~Idle => ~Idle']_vars
    /\ [](onCompleteCallback = "observer" => (isPlayingInternal <=> pendingFrames # {}))

\* playback that ended on its own: paused, not playing, no frame pending
C28_Witness ==
    /\ Called("frame")
    /\ onCompleteCallback = "observer"
    /\ step.before.fields.isPlaying /\ step.before.fields.pending # {}
    /\ ~isPlayingInternal /\ isPausedInternal
    /\ pendingFrames = {}

====
